---- MODULE Spec2Model ----
(***************************************************************************)
(* Model of src/predictor.py: one run of run_different_models (Mode A) or  *)
(* run_different_pipelines (Mode B): load the two tables of the metrics    *)
(* store, select the signal-feature columns by name, impute the sentinel   *)
(* -1 column-wise with the column's median, search every candidate for     *)
(* every target feature, and write the table of relative errors.           *)
(*                                                                         *)
(* Floating-point values are kept as integers counting quarters (Unit):    *)
(* the store holds whole numbers, a median of an even-sized column halves  *)
(* a sum, and the median of an imputed column halves once more.            *)
(* A matrix is the sequence of its columns; a column is the sequence of    *)
(* its row values. Python's 0-based positions are kept as integers and     *)
(* turned into 1-based sequence positions only where a column is read.     *)
(***************************************************************************)
EXTENDS Integers, Sequences, FiniteSets, TLC

\* ---------------------------------------------------------------- bounds
\* Largest number of names in the signal-feature list.
MaxF == 2
\* Largest number of rows of the store's tables in the imputer's inputs.
MaxRows == 3
\* Rows of the column the sentinel is injected into.
InjectRows == 20
\* Entries replaced by the sentinel on each side of the median.
InjectPerSide == 1

\* ------------------------------------------------------------- constants
\* features_1[:, :4], colnames_2[4:], index(feature)-4: the metadata columns.
MetaCols == 4
\* One stored integer is a quarter.
Unit == 2 * 2
\* The missing-value marker -1, as a float.
Sentinel == (0 - 1) * Unit

\* ------------------------------------------------------- pure functions
Range(s) == {s[k] : k \in DOMAIN s}

\* Sequences over S of length lo..hi.
SeqsOf(S, lo, hi) == UNION {[1..n -> S] : n \in lo..hi}

\* astype(numpy.float): a stored number as a float.
AsFloat(v) == v * Unit

\* The code points of a candidate name (Python compares str by code point).
Chars(name) ==
    CASE name = "elastic" -> <<101, 108, 97, 115, 116, 105, 99>>
      [] name = "lasso" -> <<108, 97, 115, 115, 111>>
      [] name = "ridge" -> <<114, 105, 100, 103, 101>>
      [] name = "bayes_ridge" -> <<98, 97, 121, 101, 115, 95, 114, 105, 100, 103, 101>>
      [] name = "lars" -> <<108, 97, 114, 115>>
      [] name = "min_max_perc" -> <<109, 105, 110, 95, 109, 97, 120, 95, 112, 101, 114, 99>>
      [] name = "standard_perc" -> <<115, 116, 97, 110, 100, 97, 114, 100, 95, 112, 101, 114, 99>>
      [] name = "robust_perc" -> <<114, 111, 98, 117, 115, 116, 95, 112, 101, 114, 99>>
      [] name = "min_max_kbest" -> <<109, 105, 110, 95, 109, 97, 120, 95, 107, 98, 101, 115, 116>>
      [] name = "standard_kbest" -> <<115, 116, 97, 110, 100, 97, 114, 100, 95, 107, 98, 101, 115, 116>>
      [] name = "robust_kbest" -> <<114, 111, 98, 117, 115, 116, 95, 107, 98, 101, 115, 116>>
      [] name = "min_max" -> <<109, 105, 110, 95, 109, 97, 120>>
      [] name = "standard" -> <<115, 116, 97, 110, 100, 97, 114, 100>>
      [] name = "robust" -> <<114, 111, 98, 117, 115, 116>>

\* s < t for two sequences of code points, as Python orders str.
RECURSIVE LexLess(_, _)
LexLess(s, t) ==
    IF t = <<>> THEN FALSE
    ELSE IF s = <<>> THEN TRUE
    ELSE IF Head(s) # Head(t) THEN Head(s) < Head(t)
    ELSE LexLess(Tail(s), Tail(t))

\* sorted(list(d.keys())) with an unsorted variant: the keys as the dict holds them.
KeysInInsertionOrder(keys) == keys

\* sorted(list(d.keys())): the names in lexicographic order.
SortedNames(keys) == SortSeq(keys, LAMBDA a, b : LexLess(Chars(a), Chars(b)))

\* numpy.median of a column: the middle of the sorted values, the mean of the
\* two middle ones when the count is even.
Median(col) ==
    LET s == SortSeq(col, LAMBDA a, b : a < b)
        n == Len(s)
    IN  IF n % 2 = 1 THEN s[(n + 1) \div 2]
        ELSE (s[n \div 2] + s[n \div 2 + 1]) \div 2

\* list.index(x): the 0-based position of the first occurrence (x occurs).
Index0(list, x) == (CHOOSE k \in DOMAIN list :
                        list[k] = x /\ \A h \in DOMAIN list : list[h] = x => k <= h) - 1

\* Python's exception classes: whether an exception of type t is caught as cls.
IsInstance(t, cls) ==
    \/ t = cls
    \/ cls = "LookupError" /\ t \in {"IndexError", "KeyError"}
    \/ cls = "OSError" /\ t \in {"ConnectionError"}
    \/ cls = "Exception" /\ t # "none"

\* The offset taken one column too far to the right.
OffsetOffByOne(pos) == pos - MetaCols + 1

\* index(feature) - 4: a position in the name list as an offset into features.
Offset(pos) == pos - MetaCols

\* round(x, 1) of the exact quotient num/den (den # 0), in tenths, half to even.
RoundTenths(num, den) ==
    LET n == IF den < 0 THEN 0 - num * 10 ELSE num * 10
        d == IF den < 0 THEN 0 - den ELSE den
        q == n \div d
        r == n - q * d
    IN  IF 2 * r < d THEN q
        ELSE IF 2 * r > d THEN q + 1
        ELSE IF q % 2 = 0 THEN q ELSE q + 1

\* round(-grid.best_score_ / numpy.median(y) * 100, 1); a zero median divides
\* a float by zero, which numpy answers with inf, -inf or nan.
RelativeErrorPercent(best_score, median_y) ==
    IF median_y = 0
    THEN [kind |-> IF best_score = 0 THEN "nan"
                   ELSE IF best_score < 0 THEN "inf" ELSE "-inf",
          tenths |-> 0]
    ELSE [kind |-> "num", tenths |-> RoundTenths((0 - best_score) * 100, median_y)]

\* The mask numpy.where(column == -1) with every negative value taken as missing.
IsMissingNegative(v) == v < 0

\* The mask of line 167: the cells equal to the sentinel.
IsMissing(v) == v = Sentinel

\* One iteration of the imputation loop: the median is taken of the column as
\* it stands, sentinel cells included, and written over the sentinel cells.
ImputeColumn(col) ==
    LET m == Median(col)
    IN  [r \in DOMAIN col |-> IF IsMissing(col[r]) THEN m ELSE col[r]]

\* The imputation loop over every column of signal_features.
Imputer(matrix) == [k \in DOMAIN matrix |-> ImputeColumn(matrix[k])]

\* numpy.delete(signal_features, i, axis=1): the matrix without column i (0-based).
DeleteColumn(matrix, i) ==
    [k \in 1..(Len(matrix) - 1) |-> IF k <= i THEN matrix[k] ELSE matrix[k + 1]]

\* train_test_split(X, y, test_size=0.3): the sizes of the two parts.
TestSize(n) == (3 * n + 9) \div 10
TrainTestSplit(n) == [train |-> n - TestSize(n), test |-> TestSize(n)]

\* pandas.DataFrame(data, columns=..., index=...) and its transpose .T
DataFrame(data, columns, index) == [index |-> index, columns |-> columns, values |-> data]

Transpose(df) ==
    [index |-> df.columns, columns |-> df.index,
     values |-> [r \in DOMAIN df.columns |-> [c \in DOMAIN df.index |-> df.values[c][r]]]]

\* ------------------------------------------------------------ catalogues
\* The keys of the models dict, in the order the dict literal declares them.
ModelsCatalog == <<"elastic", "lasso", "ridge", "bayes_ridge", "lars">>

\* The keys of the pipelines dict, in the order the dict literal declares them.
PipelinesCatalog ==
    <<"min_max_perc", "standard_perc", "robust_perc",
      "min_max_kbest", "standard_kbest", "robust_kbest",
      "min_max", "standard", "robust">>

\* get_models_and_parameters with one regressor instance for every name.
GetModelsShared(reg) == [n \in Range(reg) |-> [model |-> 1, pipeline |-> 0]]

\* get_models_and_parameters: every name gets a regressor instance of its own;
\* no pipeline exists yet (pipeline 0), run_different_models builds one per search.
GetModels(reg) == [n \in Range(reg) |-> [model |-> Index0(reg, n) + 1, pipeline |-> 0]]

\* get_elastic_pipelines: one ElasticNet instance (1) is built first and put
\* into every pipeline; every name gets a Pipeline instance of its own.
GetElasticPipelines(reg) ==
    [n \in Range(reg) |-> [model |-> 1, pipeline |-> Index0(reg, n) + 2]]

\* What GridSearchCV.fit may answer on X with ncols columns: an exception, or a
\* best cross-validated score (a negated median absolute error). A matrix
\* without columns is always refused.
BestScores == {0 - 1, 0 - Unit}
FitOutcomes(ncols) ==
    {[ok |-> FALSE, best_score |-> 0]}
    \cup (IF ncols = 0 THEN {} ELSE {[ok |-> TRUE, best_score |-> b] : b \in BestScores})

\* ------------------------------------------------------------------ state
VARIABLES
    mode,                    \* "models": run_different_models, "pipelines": run_different_pipelines
    store,                   \* the metrics store: table name -> [colnames, columns]
    signal_features_names,   \* src.constants.signal_features_names
    registry,                \* the candidate names the catalogue declares, in dict order
    pc,                      \* position of the run
    conn,                    \* "unopened", "None" or "open"
    fetched,                 \* the tables fetched so far
    features_meta, features, features_names,
    signal_features_indices, signal_features,
    catalog,                 \* models / pipelines: name -> instances
    names,                   \* models_names / pipe_names
    next_id,                 \* the next fresh object identity
    i, j,                    \* the outer and the inner loop's positions (0-based)
    split,                   \* the sizes of the train and test parts
    feature_preds, results,
    searches,                \* every grid.fit call so far, with its outcome
    evaluated,               \* <<feature, candidate, metric, part>>: metrics computed on held-out data
    console,                 \* <<feature, candidate, item>> printed
    recorded,                \* <<feature, candidate, metric>> appended to feature_preds
    output,                  \* the written file, or <<>> when none
    writes,                  \* number of to_csv calls
    error                    \* the exception that ended the run

vars == <<mode, store, signal_features_names, registry, pc, conn, fetched,
          features_meta, features, features_names, signal_features_indices,
          signal_features, catalog, names, next_id, i, j, split, feature_preds,
          results, searches, evaluated, console, recorded, output, writes, error>>

inputs == <<mode, store, signal_features_names, registry>>
loaded == <<features_meta, features, features_names>>
selected == <<signal_features_indices, signal_features>>
loopvars == <<catalog, names, next_id, i, j, split, feature_preds, results>>
logs == <<searches, evaluated, console, recorded>>
out == <<output, writes>>

NoError == [type |-> "none", at |-> "none"]

\* raise: the run ends with the exception.
Raise(type, at) == pc' = "failed" /\ error' = [type |-> type, at |-> at]

\* ---------------------------------------------------------------- inputs
\* The first four columns of a table are metadata.
MetaNames == <<"m1", "m2", "m3", "m4">>

\* A store of two tables with the same rows: each a list of column names and
\* the columns under them (numeric columns as the whole numbers given).
Table(numeric_names, meta_columns, numeric_columns) ==
    [colnames |-> MetaNames \o numeric_names, columns |-> meta_columns \o numeric_columns]

\* A column whose cells tell the table, the column and the row they come from.
TagColumn(t, c, nrows) == [r \in 1..nrows |-> 100 * t + 10 * c + r]
TagMeta(t, nrows) == [c \in 1..MetaCols |-> TagColumn(t, c, nrows)]
TaggedTable(t, numeric_names, nrows) ==
    Table(numeric_names, TagMeta(t, nrows),
          [c \in 1..Len(numeric_names) |-> TagColumn(t, MetaCols + c, nrows)])

\* The catalogue a mode declares.
Catalog(m) == IF m = "models" THEN ModelsCatalog ELSE PipelinesCatalog

\* The names of a catalogue at the given positions, in the catalogue's order.
Declared(m, positions) == [k \in DOMAIN positions |-> Catalog(m)[positions[k]]]

\* The registries a run is given, each a part of the mode's catalogue: the
\* empty one, one candidate, two candidates declared in sorted order, two
\* declared out of sorted order.
Registries(m) ==
    IF m = "models"
    THEN {Declared(m, ps) : ps \in {<<>>, <<3>>, <<2, 3>>, <<1, 4>>}}
    ELSE {Declared(m, ps) : ps \in {<<>>, <<9>>, <<1, 2>>, <<3, 7>>}}

Started ==
    /\ pc = "start" /\ conn = "unopened" /\ fetched = {}
    /\ features_meta = <<>> /\ features = <<>> /\ features_names = <<>>
    /\ signal_features_indices = <<>> /\ signal_features = <<>>
    /\ catalog = <<>> /\ names = <<>> /\ next_id = 1
    /\ i = 0 /\ j = 0 /\ split = [train |-> 0, test |-> 0]
    /\ feature_preds = <<>> /\ results = <<>>
    /\ searches = <<>> /\ evaluated = {} /\ console = {} /\ recorded = {}
    /\ output = [file |-> "", table |-> DataFrame(<<>>, <<>>, <<>>)] /\ writes = 0
    /\ error = NoError

\* Runs of either mode over tagged tables: the names of the numeric columns,
\* the signal-feature list (names of numeric columns, of a metadata column,
\* and a name no table has) and the registry vary.
Init ==
    /\ mode \in {"models", "pipelines"}
    /\ registry \in Registries(mode)
    /\ store \in {[qc_features_1 |-> TaggedTable(1, <<"a">>, 2),
                   qc_features_2 |-> TaggedTable(2, <<n2>>, 2)] : n2 \in {"a", "b"}}
    /\ signal_features_names \in SeqsOf({"a", "b", "m4", "zz"}, 0, MaxF)
    /\ Started

\* ------------------------------------------------------------ get_features_data
\* The guard left out: the run goes on without a connection.
NoConnectionCheck(c) == FALSE

\* if conn is None
ConnectionMissing(c) == c = "None"

\* conn = create_connection(path), which answers a connection or None; a
\* missing connection raises ValueError.
Connect ==
    /\ pc = "start"
    /\ \E c \in {"open", "None"} :
         /\ conn' = c
         /\ IF ConnectionMissing(c)
            THEN Raise("ValueError", "connect")
            ELSE pc' = "connected" /\ error' = error
    /\ UNCHANGED <<inputs, fetched, loaded, selected, loopvars, logs, out>>

\* [*colnames_1, *colnames_2[4:]]
CombinedNames(colnames_1, colnames_2) ==
    colnames_1 \o SubSeq(colnames_2, MetaCols + 1, Len(colnames_2))

\* hstack([features_1[:, 4:].astype(float), features_2[:, 4:].astype(float)])
NumericBlock(columns) ==
    [c \in 1..(Len(columns) - MetaCols) |->
        [r \in DOMAIN columns[c + MetaCols] |-> AsFloat(columns[c + MetaCols][r])]]

\* Both tables are fetched; meta, features and colnames are returned.
FetchTables ==
    /\ pc = "connected"
    /\ LET t1 == store.qc_features_1
           t2 == store.qc_features_2
       IN  /\ fetched' = {"qc_features_1", "qc_features_2"}
           /\ features_meta' = SubSeq(t1.columns, 1, MetaCols)
           /\ features' = NumericBlock(t1.columns) \o NumericBlock(t2.columns)
           /\ features_names' = CombinedNames(t1.colnames, t2.colnames)
    /\ pc' = "loaded"
    /\ UNCHANGED <<inputs, conn, selected, loopvars, logs, out, error>>

\* -------------------------------------------------- selection and imputation
\* list.index with a missing name answered by -1, as str.find answers.
ListIndexOrMinusOne(list, x) ==
    [found |-> TRUE, pos |-> IF x \in Range(list) THEN Index0(list, x) ELSE 0 - 1]

\* features_names.index(feature): the position, or no position (ValueError).
ListIndex(list, x) ==
    [found |-> x \in Range(list), pos |-> IF x \in Range(list) THEN Index0(list, x) ELSE 0]

\* [features_names.index(feature)-4 for feature in signal_features_names];
\* list.index raises ValueError on a name the list does not hold.
ComputeIndices ==
    /\ pc = "loaded"
    /\ IF \A k \in DOMAIN signal_features_names :
            ListIndex(features_names, signal_features_names[k]).found
       THEN /\ signal_features_indices' =
                 [k \in DOMAIN signal_features_names |->
                     Offset(ListIndex(features_names, signal_features_names[k]).pos)]
            /\ pc' = "indexed" /\ error' = error
       ELSE /\ Raise("ValueError", "index")
            /\ signal_features_indices' = signal_features_indices
    /\ UNCHANGED <<inputs, conn, fetched, loaded, signal_features, loopvars, logs, out>>

\* features[:, numpy.array(indices)]: a copy of the columns at the offsets. An
\* empty index array is a float array and is refused; an offset outside
\* -ncols..ncols-1 is refused; a negative offset counts from the last column.
Extract ==
    /\ pc = "indexed"
    /\ LET ncols == Len(features)
           idx == signal_features_indices
       IN  IF idx = <<>> \/ \E k \in DOMAIN idx : idx[k] < 0 - ncols \/ idx[k] >= ncols
           THEN Raise("IndexError", "extract") /\ signal_features' = signal_features
           ELSE /\ signal_features' = [k \in DOMAIN idx |-> features[(idx[k] % ncols) + 1]]
                /\ pc' = "extracted" /\ error' = error
    /\ UNCHANGED <<inputs, conn, fetched, loaded, signal_features_indices, loopvars, logs, out>>

\* The imputation loop (lines 166-167 and 222-223).
Impute ==
    /\ pc = "extracted"
    /\ signal_features' = Imputer(signal_features)
    /\ pc' = "imputed"
    /\ UNCHANGED <<inputs, conn, fetched, loaded, signal_features_indices, loopvars, logs, out, error>>

\* ------------------------------------------------------------- search loop
\* models, parameters = get_models_and_parameters(...) or get_elastic_pipelines(...);
\* the names are sorted; results = [].
GetCatalog ==
    /\ pc = "imputed"
    /\ catalog' = IF mode = "models" THEN GetModels(registry) ELSE GetElasticPipelines(registry)
    /\ next_id' = Len(registry) + 2
    /\ names' = SortedNames(registry)
    /\ results' = <<>>
    /\ i' = 0
    /\ pc' = "outer"
    /\ UNCHANGED <<inputs, conn, fetched, loaded, selected, j, split, feature_preds, logs, out, error>>

\* The write placed inside the outer loop: after the first feature.
AfterFirstFeature == i >= 1

\* for i in range(signal_features.shape[1]) has run out.
OuterLoopOver == i = Len(signal_features)

\* The head of the outer loop's body: X, y and the train/test split, which is
\* refused when it leaves no training row. feature_preds = [].
BeginFeature ==
    /\ pc = "outer" /\ ~OuterLoopOver
    /\ LET parts == TrainTestSplit(Len(signal_features[i + 1]))
       IN  /\ split' = parts
           /\ IF parts.train = 0
              THEN Raise("ValueError", "split") /\ UNCHANGED <<feature_preds, j>>
              ELSE feature_preds' = <<>> /\ j' = 0 /\ pc' = "inner" /\ error' = error
    /\ UNCHANGED <<inputs, conn, fetched, loaded, selected, catalog, names, next_id,
                   i, results, logs, out>>

\* The pipeline handed to GridSearchCV for a candidate: run_different_models
\* builds a new Pipeline around models[name]; run_different_pipelines hands
\* pipelines[name] itself.
Handed(name) ==
    IF mode = "models"
    THEN [pipeline |-> next_id, model |-> catalog[name].model]
    ELSE [pipeline |-> catalog[name].pipeline, model |-> catalog[name].model]

\* The metrics appended to feature_preds for a search, with R2 among them.
AppendedWithR2 == {"relative_error_percent", "r2"}

\* feature_preds.append(relative_error_percent): the metrics a search records.
Appended == {"relative_error_percent"}

\* The inner loop's body for candidate names[j]: grid.fit, the relative error,
\* in Mode B the prediction on X_test and its R2, the printing, the append.
\* An exception of the fit ends the run.
TrySearch ==
    /\ pc = "inner" /\ j < Len(names)
    /\ LET name == names[j + 1]
           X == DeleteColumn(signal_features, i)
           y == signal_features[i + 1]
           h == Handed(name)
       IN  \E o \in FitOutcomes(Len(X)) :
             LET rel == IF o.ok THEN RelativeErrorPercent(o.best_score, Median(y))
                        ELSE [kind |-> "none", tenths |-> 0]
             IN  /\ searches' = Append(searches,
                        [feature |-> i, cand |-> name, pipeline |-> h.pipeline,
                         model |-> h.model, ok |-> o.ok, rel |-> rel])
                 /\ next_id' = IF mode = "models" THEN next_id + 1 ELSE next_id
                 /\ IF o.ok
                    THEN /\ evaluated' = IF mode = "pipelines"
                                         THEN evaluated \cup {<<i, name, "r2", "test">>}
                                         ELSE evaluated
                         /\ console' = console
                                \cup {<<i, name, "relative_error_percent">>}
                                \cup (IF mode = "pipelines" THEN {<<i, name, "r2">>} ELSE {})
                         /\ feature_preds' = Append(feature_preds, rel)
                         /\ recorded' = recorded \cup {<<i, name, m>> : m \in Appended}
                         /\ j' = j + 1
                         /\ pc' = pc /\ error' = error
                    ELSE /\ Raise("ValueError", "fit")
                         /\ UNCHANGED <<evaluated, console, feature_preds, recorded, j>>
    /\ UNCHANGED <<inputs, conn, fetched, loaded, selected, catalog, names, i, split,
                   results, out>>

\* The inner loop is over: results.append(feature_preds).
EndFeature ==
    /\ pc = "inner" /\ j = Len(names)
    /\ results' = Append(results, feature_preds)
    /\ i' = i + 1
    /\ pc' = "outer"
    /\ UNCHANGED <<inputs, conn, fetched, loaded, selected, catalog, names, next_id, j,
                   split, feature_preds, logs, out, error>>

\* The file name of each mode.
FileName == IF mode = "models" THEN "grid_search_results.csv"
            ELSE "grid_search_pipelines_results.csv"

\* The outer loop is over: DataFrame(results, columns=names, index=...).T, to_csv.
WriteResults ==
    /\ pc = "outer" /\ OuterLoopOver
    /\ output' = [file |-> FileName,
                  table |-> Transpose(DataFrame(results, names, signal_features_names))]
    /\ writes' = writes + 1
    /\ pc' = "done"
    /\ UNCHANGED <<inputs, conn, fetched, loaded, selected, loopvars, logs, error>>

Next ==
    \/ Connect
    \/ FetchTables
    \/ ComputeIndices
    \/ Extract
    \/ Impute
    \/ GetCatalog
    \/ BeginFeature
    \/ TrySearch
    \/ EndFeature
    \/ WriteResults

Spec == Init /\ [][Next]_vars

\* ------------------------------------------------ the imputer's inputs
\* The whole numbers a numeric cell of the store holds in the imputer's runs.
RawVals == {0 - 3, 0 - 1, 1}

\* Runs over stores of 1..MaxRows rows whose two numeric columns, both signal
\* features, hold any values of RawVals: any fraction of a column is -1.
InitImpute ==
    /\ mode \in {"models", "pipelines"}
    /\ registry = (IF mode = "models" THEN Declared(mode, <<3>>) ELSE Declared(mode, <<9>>))
    /\ \E n \in 1..MaxRows :
         store \in {[qc_features_1 |-> Table(<<"a">>, TagMeta(1, n), <<a>>),
                     qc_features_2 |-> Table(<<"b">>, TagMeta(2, n), <<b>>)] :
                    a \in [1..n -> RawVals], b \in [1..n -> RawVals]}
    /\ signal_features_names = <<"a", "b">>
    /\ Started

SpecImpute == InitImpute /\ [][Next]_vars

\* ------------------------------------------------ the injection scenario
\* A column without sentinel: the whole numbers 1..InjectRows.
BaseColumn == [r \in 1..InjectRows |-> r]

\* The median of the column before the injection.
BaseMedian == Median([r \in 1..InjectRows |-> AsFloat(BaseColumn[r])])

\* The column with the rows of S replaced by -1.
Inject(col, S) == [r \in DOMAIN col |-> IF r \in S THEN 0 - 1 ELSE col[r]]

\* The sets of InjectPerSide rows below the median and as many above it.
SymmetricSets ==
    LET below == {r \in 1..InjectRows : AsFloat(BaseColumn[r]) < BaseMedian}
        above == {r \in 1..InjectRows : AsFloat(BaseColumn[r]) > BaseMedian}
    IN  {L \cup U : L \in {S \in SUBSET below : Cardinality(S) = InjectPerSide},
                    U \in {S \in SUBSET above : Cardinality(S) = InjectPerSide}}

\* Runs over a store whose column "a" is the base column with a symmetric set
\* of rows replaced by -1.
InitInject ==
    /\ mode \in {"models", "pipelines"}
    /\ registry = (IF mode = "models" THEN Declared(mode, <<3>>) ELSE Declared(mode, <<9>>))
    /\ store \in {[qc_features_1 |-> Table(<<"a">>, TagMeta(1, InjectRows), <<Inject(BaseColumn, S)>>),
                   qc_features_2 |-> Table(<<"b">>, TagMeta(2, InjectRows), <<BaseColumn>>)] :
                  S \in SymmetricSets}
    /\ signal_features_names = <<"a", "b">>
    /\ Started

SpecInject == InitInject /\ [][Next]_vars

\* ----------------------------------------------------------------- claims
\* The imputation loop has run (the run may have gone on, or failed later).
PostImpute ==
    \/ pc \in {"imputed", "outer", "inner", "done"}
    \/ pc = "failed" /\ error.at \in {"split", "fit"}

F == Len(signal_features_names)
C == Len(registry)

\* C1: after the imputer has run no cell of signal_features is the sentinel
\* -1, whatever fraction of a column was -1.
C1_NoSentinelLeft ==
    PostImpute =>
        \A k \in DOMAIN signal_features :
            \A r \in DOMAIN signal_features[k] : signal_features[k][r] # Sentinel

\* C2: after a symmetric injection of -1 into the base column and the
\* imputer's run, the column's median is the median before the injection.
C2_MedianPreserved ==
    PostImpute => Median(signal_features[1]) = BaseMedian

\* C3: the imputer is idempotent: the imputation loop applied to the imputed
\* matrix changes no cell.
C3_ImputerIdempotent ==
    PostImpute => Imputer(signal_features) = signal_features

\* C3's case: a column imputed with a sentinel-inclusive median of -1, which
\* still holds sentinel cells beside other values.
C3_Witness ==
    /\ PostImpute
    /\ \E k \in DOMAIN signal_features :
         /\ Median(signal_features[k]) = Sentinel
         /\ \E r \in DOMAIN signal_features[k] : signal_features[k][r] = Sentinel
         /\ \E r \in DOMAIN signal_features[k] : signal_features[k][r] # Sentinel

\* A name of the signal-feature list is not in the combined column-name list,
\* and the offsets have been asked for.
NameAbsent ==
    /\ fetched # {}
    /\ pc # "loaded"
    /\ \E k \in DOMAIN signal_features_names :
         signal_features_names[k] \notin Range(features_names)

\* Nothing after the offset computation has happened.
NothingAfterIndices ==
    /\ signal_features = <<>>
    /\ searches = <<>>
    /\ writes = 0 /\ output.file = ""

\* C4 as stated: a signal-feature name absent from the combined list ends the
\* run with a LookupError raised by the offset computation, before any
\* imputation, fit or write.
C4_LookupError ==
    NameAbsent =>
        /\ pc = "failed" /\ error.at = "index"
        /\ IsInstance(error.type, "LookupError")
        /\ NothingAfterIndices

\* C4 amended: the exception is a ValueError (list.index), raised by the
\* offset computation, before any imputation, fit or write.
C4_ValueError ==
    NameAbsent =>
        /\ pc = "failed" /\ error.at = "index"
        /\ error.type = "ValueError"
        /\ ~IsInstance(error.type, "LookupError")
        /\ NothingAfterIndices

\* C4's case: the run has ended in the offset computation.
C4_Witness == NameAbsent /\ pc = "failed" /\ error.at = "index"

\* Nothing after create_connection has happened.
NothingAfterConnect ==
    /\ fetched = {}
    /\ features_meta = <<>> /\ features = <<>> /\ features_names = <<>>
    /\ signal_features_indices = <<>>
    /\ NothingAfterIndices

\* C5 as stated: without a connection get_features_data fails with a
\* ConnectionError before fetching either table.
C5_ConnectionError ==
    conn = "None" =>
        /\ pc = "failed" /\ error.at = "connect"
        /\ IsInstance(error.type, "ConnectionError")
        /\ NothingAfterConnect

\* C5 amended: without a connection get_features_data fails with a ValueError
\* before fetching either table and before any further processing.
C5_ValueError ==
    conn = "None" =>
        /\ pc = "failed" /\ error.at = "connect"
        /\ error.type = "ValueError"
        /\ ~IsInstance(error.type, "ConnectionError")
        /\ NothingAfterConnect

\* C5's case: create_connection answered None.
C5_Witness == conn = "None" /\ pc = "failed"

\* Every (signal feature, candidate) pair has been searched and recorded.
AllSearched ==
    /\ Len(results) = F
    /\ \A f \in 1..F :
         /\ Len(results[f]) = C
         /\ \A c \in Range(registry) :
              /\ \E p \in DOMAIN searches :
                   searches[p].feature = f - 1 /\ searches[p].cand = c /\ searches[p].ok
              /\ <<f - 1, c, "relative_error_percent">> \in recorded

\* C6: the output is written at most once, and only after every pair has been
\* searched and recorded; a run that a failure ended has written nothing, does
\* nothing more, and no pair is searched twice.
C6_WrittenOnceAtTheEnd ==
    /\ writes <= 1
    /\ (writes = 0) = (output.file = "")
    /\ writes = 1 => pc = "done" /\ AllSearched
    /\ pc = "failed" => writes = 0 /\ ~ENABLED Next
    /\ \A p, q \in DOMAIN searches :
         p # q => <<searches[p].feature, searches[p].cand>>
                  # <<searches[q].feature, searches[q].cand>>

\* C6's case: a fit failed after results had been gathered.
C6_Witness ==
    /\ pc = "failed" /\ error.at = "fit"
    /\ results # <<>> /\ results[1] # <<>>
    /\ writes = 0

\* C7: the written table has the C candidate names as rows, in lexicographic
\* order, the F signal-feature names as columns, in list order, and every
\* cell holds the relative error of the search of its candidate on its
\* feature; an empty registry gives no rows and the F columns.
C7_TableShape ==
    pc = "done" =>
        LET t == output.table
        IN  /\ Len(t.index) = C /\ Range(t.index) = Range(registry)
            /\ \A r, q \in DOMAIN t.index :
                 r < q => LexLess(Chars(t.index[r]), Chars(t.index[q]))
            /\ t.columns = signal_features_names
            /\ DOMAIN t.values = 1..C
            /\ \A r \in 1..C :
                 /\ DOMAIN t.values[r] = 1..F
                 /\ \A c \in 1..F :
                      \E p \in DOMAIN searches :
                        /\ searches[p].feature = c - 1
                        /\ searches[p].cand = t.index[r]
                        /\ searches[p].ok
                        /\ t.values[r][c] = searches[p].rel
            /\ C = 0 => t.values = <<>> /\ Len(t.columns) = F

\* C7's case: a table of two candidates declared out of order and two
\* features, whose cells differ across the diagonal.
C7_Witness ==
    /\ pc = "done"
    /\ registry = <<"elastic", "bayes_ridge">>
    /\ F = 2
    /\ output.table.values[1][2] # output.table.values[2][1]

\* The searches that went through.
Searched == {<<searches[p].feature, searches[p].cand>> : p \in {q \in DOMAIN searches : searches[q].ok}}

\* C8 as stated: in Mode B the R2 of every pair is evaluated on the test split
\* and recorded against the pair's cell with the relative error; in Mode A no
\* R2 is evaluated.
C8_R2Recorded ==
    /\ mode = "pipelines" =>
         \A s \in Searched :
            /\ <<s[1], s[2], "r2", "test">> \in evaluated
            /\ <<s[1], s[2], "relative_error_percent">> \in recorded
            /\ <<s[1], s[2], "r2">> \in recorded
    /\ mode = "models" => evaluated = {}

\* C8 amended: in Mode B the R2 of every pair is evaluated on the test split
\* and printed; only the relative error is recorded against the cell. In
\* Mode A no R2 is evaluated, printed or recorded.
C8_R2PrintedOnly ==
    /\ mode = "pipelines" =>
         \A s \in Searched :
            /\ <<s[1], s[2], "r2", "test">> \in evaluated
            /\ <<s[1], s[2], "r2">> \in console
            /\ <<s[1], s[2], "relative_error_percent">> \in recorded
            /\ <<s[1], s[2], "r2">> \notin recorded
    /\ mode = "models" =>
         /\ evaluated = {}
         /\ \A s \in Searched :
              /\ <<s[1], s[2], "r2">> \notin console
              /\ <<s[1], s[2], "r2">> \notin recorded
              /\ <<s[1], s[2], "relative_error_percent">> \in recorded

\* C8's case: a search of Mode B has gone through.
C8_Witness == mode = "pipelines" /\ Searched # {} /\ pc = "done"

\* C9 as stated: the pipelines handed to the grid search for two distinct
\* candidates share neither the pipeline nor the regressor instance.
C9_NothingShared ==
    \A p, q \in DOMAIN searches :
        searches[p].cand # searches[q].cand =>
            /\ searches[p].pipeline # searches[q].pipeline
            /\ searches[p].model # searches[q].model

\* C9 amended: two distinct candidates never share a pipeline instance; in
\* Mode A they do not share a regressor instance, in Mode B they share the
\* one ElasticNet instance.
C9_PipelinesOwnedModelSharedInB ==
    \A p, q \in DOMAIN searches :
        searches[p].cand # searches[q].cand =>
            /\ searches[p].pipeline # searches[q].pipeline
            /\ mode = "models" => searches[p].model # searches[q].model
            /\ mode = "pipelines" => searches[p].model = searches[q].model

\* C9's case: two distinct candidates have been handed to the grid search.
C9_Witness ==
    \E p, q \in DOMAIN searches :
        /\ searches[p].cand # searches[q].cand
        /\ mode = "pipelines"
        /\ searches[p].model = searches[q].model

\* The columns of the store that bear a name, as floats.
ColumnsBearing(name) ==
    UNION {{[r \in DOMAIN t.columns[c] |-> AsFloat(t.columns[c][r])] :
                c \in {d \in DOMAIN t.colnames : t.colnames[d] = name}} :
           t \in {store.qc_features_1, store.qc_features_2}}

\* The 0-based position of the first occurrence of a name of the combined list.
FirstPosition(name) == Index0(features_names, name)

\* The offsets have been computed; the columns have been extracted and not yet imputed.
Indexed == pc \in {"indexed", "extracted"}

\* C10 as stated: for every signal-feature name of the combined list, at any
\* position, the offset lies inside the feature matrix and the column
\* extracted holds the data of the source column bearing the name.
C10_AnyPosition ==
    Indexed =>
        \A k \in DOMAIN signal_features_names :
            /\ 0 <= signal_features_indices[k]
            /\ signal_features_indices[k] < Len(features)
            /\ pc = "extracted" =>
                 signal_features[k] \in ColumnsBearing(signal_features_names[k])

\* C10 amended: the same for every name whose first occurrence in the
\* combined list is past the four metadata positions.
C10_PastMetadata ==
    Indexed =>
        \A k \in DOMAIN signal_features_names :
            FirstPosition(signal_features_names[k]) >= MetaCols =>
                /\ 0 <= signal_features_indices[k]
                /\ signal_features_indices[k] < Len(features)
                /\ pc = "extracted" =>
                     signal_features[k] \in ColumnsBearing(signal_features_names[k])

\* C10's case: a column of the second table has been extracted.
C10_Witness ==
    /\ pc = "extracted"
    /\ \E k \in DOMAIN signal_features_names :
         FirstPosition(signal_features_names[k]) > MetaCols

====
